---- MODULE Spec2Model ----
(***************************************************************************)
(* Model of sound_generation.Sound: a waveform accumulator (tones, noise,  *)
(* chords), a rise/fall envelope, a filename suggestion and the export of  *)
(* a 16-bit WAV file with a text file listing the components.              *)
(*                                                                         *)
(* Numbers.  Python/numpy floats are modelled by exact rationals <<n, d>>  *)
(* in lowest terms with d > 0; <<0, 0>> stands for NaN.  Times and         *)
(* frequencies are drawn so that every sine argument is a whole number of  *)
(* quarter cycles, where sin is exactly 0, 1 or -1.                        *)
(* Strings are sequences of one-character strings.                         *)
(***************************************************************************)
EXTENDS Integers, Sequences, FiniteSets, TLC

VARIABLES
    alive,       \* TRUE once Sound.__init__ has returned an object
    duration,    \* self.duration (rational)
    srate,       \* self.srate (integer)
    tvec,        \* self.tvec  (sequence of rationals)
    wave,        \* self.wave  (sequence of rationals, NaN possible)
    components,  \* self.components (sequence of records)
    calls,       \* history: the component-adding calls that returned
    nEnv,        \* history: number of apply_rise_fall calls made
    last         \* outcome of the last call: operation, arguments, return
                 \* value or exception, text printed, files written

vars == <<alive, duration, srate, tvec, wave, components, calls, nEnv, last>>

----------------------------------------------------------------------------
(* Bounds of the model *)

\* the longest sound lasts MaxDurNum/4 seconds
MaxDurNum == 4
\* at most MaxCalls component-adding calls are made on one object
MaxCalls == 2

----------------------------------------------------------------------------
(* Rational arithmetic standing for float arithmetic *)

Abs(x) == IF x < 0 THEN -x ELSE x

Min(a, b) == IF a <= b THEN a ELSE b

Max(a, b) == IF a >= b THEN a ELSE b

RECURSIVE GCD(_, _)
GCD(a, b) == IF b = 0 THEN a ELSE GCD(b, a % b)

NaN == <<0, 0>>

IsNaN(x) == x[2] = 0

\* n/d in lowest terms, d # 0
Rat(n, d) ==
    LET g == GCD(Abs(n), Abs(d))
        s == IF d < 0 THEN -1 ELSE 1
    IN  <<(s * n) \div g, (s * d) \div g>>

RInt(n) == <<n, 1>>

RAdd(x, y) ==
    IF IsNaN(x) \/ IsNaN(y) THEN NaN
    ELSE Rat(x[1] * y[2] + y[1] * x[2], x[2] * y[2])

RMul(x, y) ==
    IF IsNaN(x) \/ IsNaN(y) THEN NaN
    ELSE Rat(x[1] * y[1], x[2] * y[2])

\* floor, ceiling and truncation toward zero of n/d, d > 0
Floor(x) == x[1] \div x[2]

Ceil(x) == -((-x[1]) \div x[2])

Trunc(x) == IF x[1] >= 0 THEN x[1] \div x[2] ELSE -((-x[1]) \div x[2])

RDiv(x, y) ==
    IF IsNaN(x) \/ IsNaN(y) THEN NaN
    ELSE Rat(x[1] * y[2], x[2] * y[1])

\* Python round() of a float: nearest integer, ties to the even one
PyRound(x) ==
    LET f == Floor(x)
        r == x[1] - f * x[2]
    IN  IF 2 * r < x[2] THEN f
        ELSE IF 2 * r > x[2] THEN f + 1
        ELSE IF f % 2 = 0 THEN f ELSE f + 1

\* sin(2*pi*x) for x a whole number of quarter cycles
Sin2Pi(x) ==
    IF IsNaN(x) THEN NaN
    ELSE LET q == ((4 * x[1]) \div x[2]) % 4
         IN  RInt(IF q = 1 THEN 1 ELSE IF q = 3 THEN -1 ELSE 0)

VecAdd(w, v) == [i \in 1..Len(w) |-> RAdd(w[i], v[i])]

Zeros(n) == [i \in 1..n |-> RInt(0)]

----------------------------------------------------------------------------
(* numpy helpers used by Sound *)

\* np.arange(0, stop, step): ceil((stop - 0)/step) values 0 + i*step
Arange(stop, step) ==
    LET n == Max(0, Ceil(RDiv(stop, step)))
    IN  [i \in 1..n |-> RMul(RInt(i - 1), step)]

\* np.linspace(a, b, n) for n >= 0 (a negative n raises in the caller)
Linspace(a, b, n) ==
    IF n = 1 THEN <<a>>
    ELSE [i \in 1..n |->
            IF i = n THEN b
            ELSE RAdd(a, RMul(RInt(i - 1), RDiv(RAdd(b, RMul(RInt(-1), a)), RInt(n - 1))))]

\* the rational r >= 0 with r*r = x, for x a square
RSqrt(x) ==
    LET root(k) == CHOOSE r \in 0..k : r * r = k
    IN  <<root(x[1]), root(x[2])>>

\* np.logspace(np.log10(lo), np.log10(hi), n), 0 <= n <= 3: n values in
\* geometric progression from lo to hi; log10 of a negative number is nan
Logspace(lo, hi, n) ==
    IF lo[1] < 0 \/ hi[1] < 0 THEN [k \in 1..n |-> NaN]
    ELSE IF n = 0 THEN <<>>
    ELSE IF n = 1 THEN <<lo>>
    ELSE IF n = 2 THEN <<lo, hi>>
    ELSE <<lo, RSqrt(RMul(lo, hi)), hi>>

\* a[:n] for n >= 0: the indices (1-based) of the slice
HeadSlice(w, n) == 1..Min(n, Len(w))

\* a[-n:] for n >= 0; a[-0:] is a[0:], the whole array
TailSlice(w, n) ==
    IF n = 0 THEN 1..Len(w) ELSE (Max(Len(w) - n, 0) + 1)..Len(w)

\* a[slice] *= v succeeds iff v has the slice's length or length 1
CanMulInPlace(slice, v) ==
    Len(v) = Cardinality(slice) \/ Len(v) = 1

\* a[slice] *= v, slice an interval lo..hi of indices
MulInPlace(w, slice, v) ==
    LET lo == IF slice = {} THEN 1 ELSE CHOOSE i \in slice : \A j \in slice : i <= j
    IN  [i \in 1..Len(w) |->
            IF i \in slice
            THEN RMul(w[i], IF Len(v) = 1 THEN v[1] ELSE v[i - lo + 1])
            ELSE w[i]]

----------------------------------------------------------------------------
(* Python string helpers; a string is a sequence of characters *)

Digits == <<"0", "1", "2", "3", "4", "5", "6", "7", "8", "9">>

RECURSIVE NatStr(_)
NatStr(n) ==
    IF n < 10 THEN <<Digits[n + 1]>>
    ELSE NatStr(n \div 10) \o <<Digits[(n % 10) + 1]>>

\* str(n) of a Python int
IntStr(n) == IF n < 0 THEN <<"-">> \o NatStr(-n) ELSE NatStr(n)

\* the decimal digits of r/d, 0 <= r < d, for a terminating expansion
RECURSIVE FracStr(_, _)
FracStr(r, d) ==
    IF r = 0 THEN <<>>
    ELSE <<Digits[((10 * r) \div d) + 1]>> \o FracStr((10 * r) % d, d)

\* repr(x) of a Python float with a terminating decimal expansion
FloatStr(x) ==
    LET a == Abs(x[1])
        frac == FracStr(a % x[2], x[2])
    IN  (IF x[1] < 0 THEN <<"-">> ELSE <<>>) \o NatStr(a \div x[2]) \o <<".">>
            \o (IF frac = <<>> THEN <<"0">> ELSE frac)

\* str(x) of a number passed by the caller: an int when the denominator is 1
NumStr(x) == IF x[2] = 1 THEN IntStr(x[1]) ELSE FloatStr(x)

\* s.strip(c): leading and trailing occurrences of c removed
RECURSIVE LStrip(_, _)
LStrip(s, c) ==
    IF s # <<>> /\ Head(s) = c THEN LStrip(Tail(s), c) ELSE s

RECURSIVE RStrip(_, _)
RStrip(s, c) ==
    IF s # <<>> /\ s[Len(s)] = c THEN RStrip(SubSeq(s, 1, Len(s) - 1), c) ELSE s

Strip(s, c) == RStrip(LStrip(s, c), c)

\* s[-4:]
Last4(s) == SubSeq(s, Max(1, Len(s) - 3), Len(s))

StartsWith(s, p) == Len(s) >= Len(p) /\ SubSeq(s, 1, Len(p)) = p

\* s.replace(old, new): every non-overlapping occurrence, left to right
RECURSIVE Replace(_, _, _)
Replace(s, old, new) ==
    IF s = <<>> THEN <<>>
    ELSE IF StartsWith(s, old)
         THEN new \o Replace(SubSeq(s, Len(old) + 1, Len(s)), old, new)
         ELSE <<Head(s)>> \o Replace(Tail(s), old, new)

\* os.path.join(a, b) on POSIX
PathJoin(a, b) ==
    IF StartsWith(b, <<"/">>) THEN b
    ELSE IF a = <<>> \/ a[Len(a)] = "/" THEN a \o b
    ELSE a \o <<"/">> \o b

RECURSIVE Concat(_)
Concat(ss) == IF ss = <<>> THEN <<>> ELSE Head(ss) \o Concat(Tail(ss))

tone == <<"t", "o", "n", "e">>

noise == <<"n", "o", "i", "s", "e">>

chord == <<"c", "h", "o", "r", "d">>

dotWav == <<".", "w", "a", "v">>

dotTxt == <<".", "t", "x", "t">>

\* the default of infofile, no string
None == <<"None">>

----------------------------------------------------------------------------
(* The methods of Sound as functions of the object's fields *)

\* variant: the time vector cut at floor(duration*srate) samples
TimeVectorFloor(d, sr) ==
    [i \in 1..Max(0, Floor(RMul(d, RInt(sr)))) |-> Rat(i - 1, sr)]

\* __init__: self.tvec = np.arange(0, self.duration, 1/self.srate)
TimeVector(d, sr) == Arange(d, Rat(1, sr))

\* amp * np.sin(2*np.pi*freq*tvec + phase), phase in quarter cycles
ToneVec(tv, freq, amp, phaseQ) ==
    [i \in 1..Len(tv) |->
        RMul(amp, Sin2Pi(RAdd(RMul(freq, tv[i]), Rat(phaseQ, 4))))]

\* variant: the tone assigned to the waveform instead of added to it
AddToneWaveAssign(w, tv, freq, amp) == ToneVec(tv, RInt(freq), amp, 0)

\* add_tone: self.wave += amp * np.sin(2*np.pi*freq*self.tvec)
AddToneWave(w, tv, freq, amp) == VecAdd(w, ToneVec(tv, RInt(freq), amp, 0))

ToneRecord(freq, amp) == [type |-> tone, freq |-> freq, amp |-> amp]

\* add_noise: self.wave += amp * randomGen.uniform(-1, 1, len(self.tvec))
AddNoiseWave(w, amp, u) == VecAdd(w, [i \in 1..Len(w) |-> RMul(amp, u[i])])

NoiseRecord(amp) == [type |-> noise, amp |-> amp]

\* add_chord: the frequencies of the tones
FreqEachComp(midfreq, factor, ntones) ==
    Logspace(Rat(midfreq, factor), RInt(midfreq * factor), ntones)

\* add_chord: the loop adding one tone per frequency, from tone k on
RECURSIVE AddChordWave(_, _, _, _, _, _)
AddChordWave(w, tv, freqs, phase, amp, k) ==
    IF k > Len(freqs) THEN w
    ELSE AddChordWave(VecAdd(w, ToneVec(tv, freqs[k], amp, phase[k])),
                      tv, freqs, phase, amp, k + 1)

ChordRecord(midfreq, factor, ntones, amp) ==
    [type |-> chord, midfreq |-> midfreq, factor |-> factor,
     ntones |-> ntones, amp |-> amp]

\* variant: one record appended for each tone of the chord
AddChordLogPerTone(comps, midfreq, factor, ntones, amp) ==
    comps \o [k \in 1..ntones |-> ChordRecord(midfreq, factor, ntones, amp)]

\* add_chord: self.components += [{'type':'chord', ...}]
AddChordLog(comps, midfreq, factor, ntones, amp) ==
    comps \o <<ChordRecord(midfreq, factor, ntones, amp)>>

\* add_chord: the exception raised before anything is changed, "" if none
AddChordExc(factor, ntones) ==
    IF factor = 0 THEN "ZeroDivisionError"
    ELSE IF ntones < 0 THEN "ValueError"
    ELSE ""

\* apply_rise_fall: nSamplesRise, nSamplesFall
NSamples(sr, t) == PyRound(RMul(RInt(sr), t))

\* variant: ramps cut to the length of the buffer, so that no call fails
RiseFallClamped(w, nRise, nFall) ==
    LET r == Min(Max(nRise, 0), Len(w))
        f == Min(Max(nFall, 0), Len(w))
        w1 == MulInPlace(w, 1..r, Linspace(RInt(0), RInt(1), r))
    IN  [wave |-> MulInPlace(w1, (Len(w) - f + 1)..Len(w),
                             Linspace(RInt(1), RInt(0), f)),
         exc |-> ""]

\* apply_rise_fall: waveform and exception ("" if none) after the call
RiseFall(w, nRise, nFall) ==
    IF nRise < 0 \/ nFall < 0 THEN [wave |-> w, exc |-> "ValueError"]
    ELSE LET riseVec == Linspace(RInt(0), RInt(1), nRise)
             fallVec == Linspace(RInt(1), RInt(0), nFall)
         IN  IF ~CanMulInPlace(HeadSlice(w, nRise), riseVec)
             THEN [wave |-> w, exc |-> "ValueError"]
             ELSE LET w1 == MulInPlace(w, HeadSlice(w, nRise), riseVec)
                  IN  IF ~CanMulInPlace(TailSlice(w1, nFall), fallVec)
                      THEN [wave |-> w1, exc |-> "ValueError"]
                      ELSE [wave |-> MulInPlace(w1, TailSlice(w1, nFall), fallVec),
                            exc |-> ""]

\* suggest_filename: the string of one component
CompStr(comp) ==
    comp.type
        \o (IF comp.type = tone THEN IntStr(comp.freq) \o <<"H", "z">> ELSE <<>>)
        \o (IF comp.type = chord THEN IntStr(comp.midfreq) \o <<"H", "z">> ELSE <<>>)

\* suggest_filename: the loop over self.components
RECURSIVE JoinedName(_)
JoinedName(comps) ==
    IF comps = <<>> THEN <<>>
    ELSE CompStr(Head(comps)) \o <<"_">> \o JoinedName(Tail(comps))

\* variant: the separator after the last component is kept
SuggestFilenameNoStrip(comps, suffix) ==
    JoinedName(comps) \o suffix \o dotWav

SuggestFilename(comps, suffix) ==
    Strip(JoinedName(comps), "_") \o suffix \o dotWav

\* variant: only the last three characters are compared
SaveRejectsWav3(wavefile) ==
    SubSeq(wavefile, Max(1, Len(wavefile) - 2), Len(wavefile)) # Tail(dotWav)

\* save: the extension test
SaveRejects(wavefile) == Last4(wavefile) # dotWav

\* one sample of (32767*self.wave).astype('int16'); a value outside the
\* int16 range, or nan, has no defined conversion: ub names what the build
\* does with it ("wrap": keep the low 16 bits, nan gives 0; "sat": clamp,
\* nan gives the lowest value)
Int16Max == 32767

InInt16(v) == v >= -Int16Max - 1 /\ v <= Int16Max

ToInt16(x, ub) ==
    IF IsNaN(x) THEN (IF ub = "wrap" THEN 0 ELSE -Int16Max - 1)
    ELSE LET v == Trunc(RMul(RInt(Int16Max), x))
         IN  IF InInt16(v) THEN v
             ELSE IF ub = "wrap"
                  THEN ((v + Int16Max + 1) % (2 * (Int16Max + 1))) - Int16Max - 1
                  ELSE IF v > Int16Max THEN Int16Max ELSE -Int16Max - 1

\* variant: samples rounded to the nearest integer instead of truncated
Wave16bitRounded(w, ub) ==
    [i \in 1..Len(w) |->
        IF InInt16(PyRound(RMul(RInt(Int16Max), w[i])))
        THEN PyRound(RMul(RInt(Int16Max), w[i]))
        ELSE ToInt16(w[i], ub)]

Wave16bit(w, ub) == [i \in 1..Len(w) |-> ToInt16(w[i], ub)]

\* save: the default name of the text file
InfoName(wavefile) == Replace(wavefile, dotWav, dotTxt)

\* str(comp) of a component dictionary
DictStr(comp) ==
    <<"{", "'", "t", "y", "p", "e", "'", ":", " ", "'">> \o comp.type \o <<"'">>
        \o (IF comp.type = tone THEN <<",", " ", "'", "f", "r", "e", "q", "'", ":", " ">> \o IntStr(comp.freq) ELSE <<>>)
        \o (IF comp.type = chord
            THEN <<",", " ", "'", "m", "i", "d", "f", "r", "e", "q", "'", ":", " ">> \o IntStr(comp.midfreq) \o <<",", " ", "'", "f", "a", "c", "t", "o", "r", "'", ":", " ">> \o IntStr(comp.factor)
                    \o <<",", " ", "'", "n", "t", "o", "n", "e", "s", "'", ":", " ">> \o IntStr(comp.ntones)
            ELSE <<>>)
        \o <<",", " ", "'", "a", "m", "p", "'", ":", " ">> \o NumStr(comp.amp) \o <<"}">>

\* save: ''.join([str(cstr)+'\n' for cstr in self.components])
InfoText(comps) ==
    Concat([i \in 1..Len(comps) |-> DictStr(comps[i]) \o <<"\n">>])

\* save: the files written, in the order written
SavedFiles(w, sr, comps, wavefile, infofile, outdir, ub) ==
    LET info == IF infofile = None THEN InfoName(wavefile) ELSE infofile
    IN  << [path |-> PathJoin(outdir, wavefile), kind |-> "wav",
            rate |-> sr, data |-> Wave16bit(w, ub), text |-> <<>>],
           [path |-> PathJoin(outdir, info), kind |-> "txt",
            rate |-> 0, data |-> <<>>, text |-> InfoText(comps)] >>

----------------------------------------------------------------------------
(* Inputs of the calls *)

\* (duration, srate) of the objects built
CreateArgs ==
    {<<Rat(3, 4), 2>>, <<Rat(MaxDurNum, 4), 4>>, <<Rat(-1, 4), 4>>,
     <<RInt(0), 2>>, <<Rat(3, 4), 0>>}

Freqs == {1, 3, 500}

Amps == {RInt(1), Rat(1, 4)}

\* (freq, amp) of add_tone where the other calls are the subject
ToneArgs == {<<1, RInt(1)>>, <<3, Rat(1, 4)>>, <<500, Rat(1, 4)>>}

\* (midfreq, factor, ntones, amp) of add_chord
ChordArgs ==
    {<<2, 2, 3, RInt(1)>>, <<2, 1, 2, Rat(1, 4)>>, <<2, 2, 0, RInt(1)>>,
     <<2, -1, 1, RInt(1)>>, <<2, 0, 1, RInt(1)>>, <<2, 2, -1, RInt(1)>>}

\* draws of uniform(-1, 1, n): r selects one of the vectors
NoiseDraw(n, r) ==
    [i \in 1..n |-> <<RInt(-1), Rat(1, 2), RInt(0)>>[((i + r) % 3) + 1]]

\* draw of uniform(-pi, pi, n), in quarter cycles
PhaseDraw(n) == [k \in 1..n |-> <<0, 1, -2>>[(k % 3) + 1]]

\* rise and fall times in seconds
Times == {RInt(0), Rat(1, 8), Rat(1, 4), Rat(3, 8), Rat(3, 4), Rat(5, 4)}

\* (riseTime, fallTime) where the other calls are the subject
EnvArgs == {<<Rat(1, 4), Rat(1, 4)>>, <<Rat(3, 8), RInt(0)>>, <<Rat(5, 4), Rat(1, 4)>>}

Suffixes == {<<>>, <<"_", "v", "2">>, <<"_">>}

WaveFiles == {<<"a", ".", "w", "a", "v">>, <<"a", ".", "w", "a", "v", ".", "w", "a", "v">>, <<"a", ".", "t", "x", "t">>, <<"w", "a", "v">>, <<"t", "o", "n", "e", "5", "0", "0", "H", "z", "_", "n", "o", "i", "s", "e", ".", "w", "a", "v">>, <<>>, dotWav}

InfoFiles == {None, <<"i", ".", "t", "x", "t">>}

OutDirs == {<<".", "/">>, <<"/", "t", "m", "p">>}

UBOutcomes == {"wrap", "sat"}

----------------------------------------------------------------------------
(* The state machine *)

NoFiles == <<>>

Outcome(op, args, exc, ret, printed, files) ==
    [op |-> op, args |-> args, exc |-> exc, ret |-> ret,
     printed |-> printed, files |-> files]

Init ==
    /\ alive = FALSE
    /\ duration = RInt(0)
    /\ srate = 0
    /\ tvec = <<>>
    /\ wave = <<>>
    /\ components = <<>>
    /\ calls = <<>>
    /\ nEnv = 0
    /\ last = Outcome("none", <<>>, "", <<>>, "", NoFiles)

\* sound = Sound(duration, srate)
Create(d, sr) ==
    /\ ~alive
    /\ IF sr = 0
       THEN /\ last' = Outcome("init", <<d, sr>>, "ZeroDivisionError", <<>>, "", NoFiles)
            /\ UNCHANGED <<alive, duration, srate, tvec, wave, components>>
       ELSE /\ alive' = TRUE
            /\ duration' = d
            /\ srate' = sr
            /\ tvec' = TimeVector(d, sr)
            /\ wave' = Zeros(Len(tvec'))
            /\ components' = <<>>
            /\ last' = Outcome("init", <<d, sr>>, "", <<>>, "", NoFiles)
    /\ UNCHANGED <<calls, nEnv>>

\* sound.add_tone(freq, amp)
AddTone(freq, amp) ==
    /\ alive
    /\ Len(calls) < MaxCalls
    /\ wave' = AddToneWave(wave, tvec, freq, amp)
    /\ components' = components \o <<ToneRecord(freq, amp)>>
    /\ calls' = Append(calls, ToneRecord(freq, amp))
    /\ last' = Outcome("add_tone", <<freq, amp>>, "", <<>>, "", NoFiles)
    /\ UNCHANGED <<alive, duration, srate, tvec, nEnv>>

\* sound.add_noise(amp), u the draw of the random generator
AddNoise(amp, u) ==
    /\ alive
    /\ Len(calls) < MaxCalls
    /\ wave' = AddNoiseWave(wave, amp, u)
    /\ components' = components \o <<NoiseRecord(amp)>>
    /\ calls' = Append(calls, NoiseRecord(amp))
    /\ last' = Outcome("add_noise", <<amp>>, "", <<>>, "", NoFiles)
    /\ UNCHANGED <<alive, duration, srate, tvec, nEnv>>

\* sound.add_chord(midfreq, factor, ntones, amp), phase the draw of the
\* random generator
AddChord(midfreq, factor, ntones, amp, phase) ==
    /\ alive
    /\ Len(calls) < MaxCalls
    /\ IF AddChordExc(factor, ntones) # ""
       THEN /\ last' = Outcome("add_chord", <<midfreq, factor, ntones, amp>>,
                               AddChordExc(factor, ntones), <<>>, "", NoFiles)
            /\ UNCHANGED <<wave, components, calls>>
       ELSE /\ wave' = AddChordWave(wave, tvec, FreqEachComp(midfreq, factor, ntones),
                                    phase, amp, 1)
            /\ components' = AddChordLog(components, midfreq, factor, ntones, amp)
            /\ calls' = Append(calls, ChordRecord(midfreq, factor, ntones, amp))
            /\ last' = Outcome("add_chord", <<midfreq, factor, ntones, amp>>,
                               "", <<>>, "", NoFiles)
    /\ UNCHANGED <<alive, duration, srate, tvec, nEnv>>

\* sound.apply_rise_fall(riseTime, fallTime); the envelope is the finishing
\* step of a sound and is applied once
ApplyRiseFall(riseTime, fallTime) ==
    /\ alive
    /\ nEnv = 0
    /\ LET nRise == NSamples(srate, riseTime)
           nFall == NSamples(srate, fallTime)
           res == RiseFall(wave, nRise, nFall)
       IN  /\ wave' = res.wave
           /\ last' = Outcome("apply_rise_fall", <<nRise, nFall>>, res.exc,
                              <<>>, "", NoFiles)
    /\ nEnv' = nEnv + 1
    /\ UNCHANGED <<alive, duration, srate, tvec, components, calls>>

\* sound.suggest_filename(suffix)
Suggest(suffix) ==
    /\ alive
    /\ last' = Outcome("suggest_filename", <<suffix>>, "",
                       SuggestFilename(components, suffix), "", NoFiles)
    /\ UNCHANGED <<alive, duration, srate, tvec, wave, components, calls, nEnv>>

\* sound.save(wavefile, infofile, outdir)
Save(wavefile, infofile, outdir, ub) ==
    /\ alive
    /\ IF SaveRejects(wavefile)
       THEN last' = Outcome("save", <<wavefile, infofile, outdir>>, "", <<>>,
                            "Nothing saved", NoFiles)
       ELSE last' = Outcome("save", <<wavefile, infofile, outdir>>, "", <<>>,
                            "Saved",
                            SavedFiles(wave, srate, components, wavefile,
                                       infofile, outdir, ub))
    /\ UNCHANGED <<alive, duration, srate, tvec, wave, components, calls, nEnv>>

\* every operation, with a few inputs each
Next ==
    \/ \E c \in CreateArgs : Create(c[1], c[2])
    \/ \E t \in ToneArgs : AddTone(t[1], t[2])
    \/ AddNoise(Rat(1, 4), NoiseDraw(Len(tvec), 0))
    \/ \E c \in ChordArgs : AddChord(c[1], c[2], c[3], c[4], PhaseDraw(Max(c[3], 0)))
    \/ \E e \in EnvArgs : ApplyRiseFall(e[1], e[2])
    \/ Suggest(<<>>)
    \/ \E wf \in {<<"a", ".", "w", "a", "v">>, <<"a", ".", "t", "x", "t">>} : Save(wf, None, <<".", "/">>, "wrap")

Spec == Init /\ [][Next]_vars

\* tones of every frequency and amplitude
NextTone ==
    \/ \E c \in {<<Rat(MaxDurNum, 4), 4>>, <<Rat(3, 4), 2>>} : Create(c[1], c[2])
    \/ \E f \in Freqs, a \in Amps : AddTone(f, a)
    \/ ApplyRiseFall(Rat(1, 4), Rat(1, 4))

SpecTone == Init /\ [][NextTone]_vars

\* envelopes of every rise and fall time, and the encoding of the result
NextEnv ==
    \/ \E c \in {<<Rat(MaxDurNum, 4), 4>>, <<Rat(3, 4), 2>>, <<Rat(-1, 4), 4>>} :
          Create(c[1], c[2])
    \/ \E a \in Amps : AddTone(1, a)
    \/ \E r \in 0..1 : AddNoise(Rat(1, 4), NoiseDraw(Len(tvec), r))
    \/ \E r \in Times, f \in Times : ApplyRiseFall(r, f)
    \/ \E ub \in UBOutcomes : Save(<<"a", ".", "w", "a", "v">>, None, <<".", "/">>, ub)

SpecEnv == Init /\ [][NextEnv]_vars

\* file names: every suffix, every target name
NextName ==
    \/ Create(Rat(3, 4), 2)
    \/ \E t \in ToneArgs : AddTone(t[1], t[2])
    \/ AddNoise(Rat(1, 4), NoiseDraw(Len(tvec), 0))
    \/ \E c \in ChordArgs : AddChord(c[1], c[2], c[3], c[4], PhaseDraw(Max(c[3], 0)))
    \/ \E sfx \in Suffixes : Suggest(sfx)
    \/ \E wf \in WaveFiles, inf \in InfoFiles, od \in OutDirs :
          Save(wf, inf, od, "wrap")

SpecName == Init /\ [][NextName]_vars

----------------------------------------------------------------------------
(* Properties *)

RLe(x, y) == x[1] * y[2] <= y[1] * x[2]

InUnitRange(x) == ~IsNaN(x) /\ RLe(RInt(-1), x) /\ RLe(x, RInt(1))

EndsWith(s, suf) ==
    Len(s) >= Len(suf) /\ SubSeq(s, Len(s) - Len(suf) + 1, Len(s)) = suf

\* C1 as stated: for duration > 0 and srate > 0 the time vector and the
\* waveform both have floor(duration*srate) entries, whatever was called.
C1_FloorLength ==
    (alive /\ duration[1] > 0 /\ srate > 0) =>
        /\ Len(tvec) = Floor(RMul(duration, RInt(srate)))
        /\ Len(wave) = Floor(RMul(duration, RInt(srate)))

\* C1 amended: for duration > 0 and srate > 0 the time vector and the
\* waveform both have ceil(duration*srate) entries, the multiples of
\* 1/srate in [0, duration), after any sequence of calls.
C1_CeilLength ==
    (alive /\ duration[1] > 0 /\ srate > 0) =>
        /\ Len(tvec) = Ceil(RMul(duration, RInt(srate)))
        /\ Len(wave) = Len(tvec)
        /\ \A i \in 1..Len(tvec) :
              tvec[i] = Rat(i - 1, srate) /\ ~RLe(duration, tvec[i])

C1_Witness ==
    /\ alive /\ duration[1] > 0 /\ srate > 0
    /\ RMul(duration, RInt(srate))[2] # 1
    /\ Len(components) = MaxCalls
    /\ nEnv = 1
    /\ last.op = "save" /\ last.files # NoFiles

\* C2: a call with a non-positive parameter is rejected with an error and
\* changes nothing: the constructor with duration <= 0 or srate <= 0 builds
\* no object, add_chord with ntones < 1 or factor <= 0 leaves the waveform
\* and the component list as they were.
C2_Rejected ==
    [][ /\ (last'.op = "init" /\ (last'.args[1][1] <= 0 \/ last'.args[2] <= 0))
            => (last'.exc # "" /\ ~alive')
        /\ (last'.op = "add_chord" /\ (last'.args[3] < 1 \/ last'.args[2] <= 0))
            => (last'.exc # "" /\ wave' = wave /\ components' = components)
      ]_vars

IsPrefix(s, t) == Len(s) <= Len(t) /\ SubSeq(t, 1, Len(s)) = s

AddOps == {"add_tone", "add_noise", "add_chord"}

\* the record a component-adding call is to leave, from its arguments
RecordOf(op, args) ==
    IF op = "add_tone" THEN [type |-> tone, freq |-> args[1], amp |-> args[2]]
    ELSE IF op = "add_noise" THEN [type |-> noise, amp |-> args[1]]
    ELSE [type |-> chord, midfreq |-> args[1], factor |-> args[2],
          ntones |-> args[3], amp |-> args[4]]

\* C3: the component list is append-only and is the sequence of the
\* component-adding calls that returned, in call order, one record per call
\* (one per add_chord whatever ntones is); apply_rise_fall, suggest_filename
\* and save leave it as it is.
C3_LogIsCallHistory ==
    [][ /\ components' = calls'
        /\ IsPrefix(components, components')
        /\ (last'.op \in AddOps /\ last'.exc = "")
            => components' = Append(components, RecordOf(last'.op, last'.args))
        /\ (last'.op \notin AddOps \/ last'.exc # "")
            => components' = components
      ]_vars

C3_Witness ==
    /\ Len(components) = 2
    /\ components[1].type = chord /\ components[1].ntones = 3
    /\ components[2].type = noise
    /\ nEnv = 1
    /\ last.op = "save" /\ last.files # NoFiles

\* the sum of the amplitudes of the tones of frequency f in the list
RECURSIVE AmpSum(_, _)
AmpSum(comps, f) ==
    IF comps = <<>> THEN RInt(0)
    ELSE RAdd(IF Head(comps).freq = f THEN Head(comps).amp ELSE RInt(0),
              AmpSum(Tail(comps), f))

\* sum over the frequencies in fs of (total amplitude)*sin(2*pi*f*t)
RECURSIVE ToneSum(_, _, _)
ToneSum(comps, fs, t) ==
    IF fs = {} THEN RInt(0)
    ELSE LET f == CHOOSE g \in fs : TRUE
         IN  RAdd(RMul(AmpSum(comps, f), Sin2Pi(RMul(RInt(f), t))),
                  ToneSum(comps, fs \ {f}, t))

\* C4: after add_tone calls only and no envelope, sample i is the sum over
\* the calls of amp*sin(2*pi*freq*t_i), t_i = i/srate: a function of the
\* multiset of calls, not of their order; the same tone twice gives twice
\* the waveform of once.
C4_TonesAdd ==
    (alive /\ nEnv = 0) =>
        /\ \A i \in 1..Len(wave) :
              wave[i] = ToneSum(components, Freqs, Rat(i - 1, srate))
        /\ (Len(components) = 2 /\ components[1] = components[2]) =>
              \A i \in 1..Len(wave) :
                  wave[i] = RMul(RInt(2),
                                 RMul(components[1].amp,
                                      Sin2Pi(Rat(components[1].freq * (i - 1), srate))))

C4_Witness ==
    /\ alive /\ nEnv = 0
    /\ Len(components) = 2
    /\ components[1].freq # components[2].freq
    /\ \E i \in 1..Len(wave) : wave[i] # RInt(0) /\ wave[i][2] # 1

\* the name of one component
RecordName(r) ==
    IF r.type = tone THEN tone \o IntStr(r.freq) \o <<"H", "z">>
    ELSE IF r.type = chord THEN chord \o IntStr(r.midfreq) \o <<"H", "z">>
    ELSE noise

RECURSIVE JoinWith(_, _)
JoinWith(strs, sep) ==
    IF strs = <<>> THEN <<>>
    ELSE IF Len(strs) = 1 THEN strs[1]
    ELSE strs[1] \o sep \o JoinWith(Tail(strs), sep)

\* C5: suggest_filename(suffix) returns the names of the components
\* ("tone<freq>Hz", "chord<midfreq>Hz", "noise") in list order joined by
\* single underscores, then suffix, then ".wav"; an empty list gives
\* suffix + ".wav", Tone(500) then Noise gives "tone500Hz_noise.wav"; the
\* call changes neither the waveform nor the list.
C5_SuggestedName ==
    [][ (last'.op = "suggest_filename") =>
            /\ last'.exc = ""
            /\ last'.ret =
                  JoinWith([i \in 1..Len(components) |-> RecordName(components[i])],
                           <<"_">>)
                      \o last'.args[1] \o dotWav
            /\ (components = <<>>) => last'.ret = last'.args[1] \o dotWav
            /\ (/\ Len(components) = 2
                /\ components[1].type = tone /\ components[1].freq = 500
                /\ components[2].type = noise
                /\ last'.args[1] = <<>>)
                  => last'.ret = <<"t", "o", "n", "e", "5", "0", "0", "H", "z", "_", "n", "o", "i", "s", "e", ".", "w", "a", "v">>
            /\ wave' = wave
            /\ components' = components
      ]_vars

C5_Witness ==
    /\ last.op = "suggest_filename"
    /\ last.args[1] = <<>>
    /\ Len(components) = 2
    /\ last.ret = <<"t", "o", "n", "e", "5", "0", "0", "H", "z", "_", "n", "o", "i", "s", "e", ".", "w", "a", "v">>

\* C6: save with a name that does not end in ".wav" (names shorter than
\* four characters included, whatever infofile and outdir are) writes no
\* file, raises nothing, reports that nothing was saved and leaves the
\* waveform and the component list unchanged.
C6_RejectedSave ==
    [][ (last'.op = "save" /\ ~EndsWith(last'.args[1], dotWav)) =>
            /\ last'.files = NoFiles
            /\ last'.exc = ""
            /\ last'.printed = "Nothing saved"
            /\ wave' = wave
            /\ components' = components
      ]_vars

C6_Witness ==
    /\ last.op = "save"
    /\ Len(last.args[1]) \in 1..3
    /\ last.args[2] # None
    /\ components # <<>>
    /\ last.files = NoFiles

\* C7: save with a name ending in ".wav" and no infofile writes exactly two
\* files in outdir: the audio file under the given name and the text file
\* under that name with only its final ".wav" replaced by ".txt"; the text
\* file has one line per component, in list order.
C7_TwoFiles ==
    (last.op = "save" /\ EndsWith(last.args[1], dotWav) /\ last.args[2] = None) =>
        /\ Len(last.files) = 2
        /\ last.files[1].kind = "wav"
        /\ last.files[1].path = PathJoin(last.args[3], last.args[1])
        /\ last.files[2].kind = "txt"
        /\ last.files[2].path =
              PathJoin(last.args[3],
                       SubSeq(last.args[1], 1, Len(last.args[1]) - 4) \o dotTxt)
        /\ last.files[2].text =
              Concat([i \in 1..Len(components) |-> DictStr(components[i]) \o <<"\n">>])

\* C8 as stated: on a sound of duration > 0 and srate > 0, with nRise >= 0,
\* nFall >= 0 and nRise + nFall <= len(wave) (0 included), apply_rise_fall
\* completes, leaves the samples at indices [nRise, len - nFall) unchanged,
\* sets sample 0 to 0 when nRise > 0 and the last sample to 0 when nFall > 0.
C8_Frame ==
    [][ (/\ last'.op = "apply_rise_fall"
         /\ duration[1] > 0 /\ srate > 0
         /\ last'.args[1] >= 0 /\ last'.args[2] >= 0
         /\ last'.args[1] + last'.args[2] <= Len(wave)) =>
            /\ last'.exc = ""
            /\ Len(wave') = Len(wave)
            /\ \A i \in (last'.args[1] + 1)..(Len(wave) - last'.args[2]) :
                  wave'[i] = wave[i]
            /\ (last'.args[1] > 0) => wave'[1] = RInt(0)
            /\ (last'.args[2] > 0) => wave'[Len(wave)] = RInt(0)
      ]_vars

\* C9 as stated: on a sound of duration > 0 and srate > 0, apply_rise_fall
\* completes without error also when nRise + nFall > len(wave), nRise >
\* len(wave) or nFall > len(wave).
C9_NeverFails ==
    (/\ last.op = "apply_rise_fall"
     /\ duration[1] > 0 /\ srate > 0
     /\ last.args[1] >= 0 /\ last.args[2] >= 0
     /\ last.args[1] + last.args[2] > Len(wave)) => last.exc = ""

\* the value sample i (1-based) of n samples is multiplied by in a rise of
\* nRise points and in a fall of nFall points
RiseFactor(i, nRise) ==
    IF i > nRise THEN RInt(1)
    ELSE IF nRise = 1 THEN RInt(0) ELSE Rat(i - 1, nRise - 1)

FallFactor(i, n, nFall) ==
    IF i <= n - nFall THEN RInt(1)
    ELSE IF nFall = 1 THEN RInt(1) ELSE Rat(n - i, nFall - 1)

\* a ramp of k points fits a buffer of n samples
RampFits(k, n) == k <= n \/ k = 1

\* C9 amended: with nRise + nFall > len(wave) the call completes exactly
\* when neither ramp is longer than the buffer (a one-point ramp always
\* fits); it then multiplies the first nRise samples by the rise ramp and
\* the last nFall samples by the fall ramp, the overlap by both; otherwise
\* it raises ValueError, before any change when the rise ramp is too long
\* and after the rise ramp has been applied when only the fall ramp is; the
\* buffer length never changes.
C9_OverlapOrError ==
    [][ (/\ last'.op = "apply_rise_fall"
         /\ last'.args[1] >= 0 /\ last'.args[2] >= 0
         /\ last'.args[1] + last'.args[2] > Len(wave)) =>
            LET nRise == last'.args[1]
                nFall == last'.args[2]
                n == Len(wave)
                fits == RampFits(nRise, n) /\ RampFits(nFall, n)
            IN  /\ Len(wave') = n
                /\ (last'.exc = "") <=> fits
                /\ (last'.exc # "") => last'.exc = "ValueError"
                /\ fits => \A i \in 1..n :
                      wave'[i] = RMul(RMul(wave[i], RiseFactor(i, nRise)),
                                      FallFactor(i, n, nFall))
                /\ ~RampFits(nRise, n) => wave' = wave
                /\ (RampFits(nRise, n) /\ ~RampFits(nFall, n)) =>
                      \A i \in 1..n : wave'[i] = RMul(wave[i], RiseFactor(i, nRise))
      ]_vars

C9_Witness ==
    /\ last.op = "apply_rise_fall" /\ last.exc = ""
    /\ last.args[1] + last.args[2] > Len(wave)
    /\ Len(wave) >= 4
    /\ \E i \in 1..Len(wave) :
          /\ i <= last.args[1] /\ i > Len(wave) - last.args[2]
          /\ wave[i] # RInt(0)
          /\ wave[i][2] > 4

\* the integers nearest to x (both neighbours on a tie)
IsNearest(k, x) == 2 * Abs(k * x[2] - x[1]) <= x[2]

\* k is x with its fractional part dropped
IsTruncation(k, x) ==
    IF x[1] >= 0
    THEN k >= 0 /\ k * x[2] <= x[1] /\ x[1] < (k + 1) * x[2]
    ELSE k <= 0 /\ k * x[2] >= x[1] /\ x[1] > (k - 1) * x[2]

\* C10 as stated: save encodes every sample s in [-1, 1] as the integer
\* nearest to s*32767.
C10_Rounds ==
    (last.op = "save" /\ last.files # NoFiles) =>
        \A i \in 1..Len(wave) :
            InUnitRange(wave[i]) =>
                IsNearest(last.files[1].data[i], RMul(RInt(Int16Max), wave[i]))

\* C10 amended: save encodes every sample s in [-1, 1] as s*32767 with its
\* fractional part dropped (truncation toward zero), one value per sample,
\* and leaves the waveform itself as it was.
C10_Truncates ==
    [][ (last'.op = "save") =>
            /\ wave' = wave
            /\ (last'.files # NoFiles) =>
                  /\ Len(last'.files[1].data) = Len(wave)
                  /\ \A i \in 1..Len(wave) :
                        InUnitRange(wave[i]) =>
                            IsTruncation(last'.files[1].data[i],
                                         RMul(RInt(Int16Max), wave[i]))
      ]_vars

C10_Witness ==
    /\ last.op = "save" /\ last.files # NoFiles
    /\ \E i \in 1..Len(wave) :
          /\ InUnitRange(wave[i])
          /\ wave[i][1] < 0
          /\ ~IsNearest(last.files[1].data[i], RMul(RInt(Int16Max), wave[i]))
    /\ \E i \in 1..Len(wave) : ~InUnitRange(wave[i])

====
